---- MODULE Spec2Model ----
(***************************************************************************)
(* A model of the client-side audio comparison of the pronunciation        *)
(* trainer (services/audioUtils: extractPitch, trimPitch, performDTW and   *)
(* analyzeAudio) and of the handlers of the App component that record,     *)
(* retry and save attempts.                                                *)
(*                                                                         *)
(* Numbers.  The program computes with IEEE doubles.  The model computes   *)
(* with exact rationals extended by the three special values the program   *)
(* can produce: a number is a pair <<n, d>>, in lowest terms with d > 0,   *)
(* or Inf = <<1, 0>>, NegInf = <<-1, 0>>, NaN = <<0, 0>>.  Rounding of     *)
(* doubles is not modelled.  Sequences are 1-based, the program's arrays   *)
(* are 0-based: array position k is sequence position k + 1.  Indices kept *)
(* in the state (frame start, path pairs, backtracking position) are the   *)
(* program's 0-based values.                                               *)
(***************************************************************************)
EXTENDS Integers, Sequences, FiniteSets, TLC

\* ------------------------------------------------------------------ bounds
\* number of 20 ms segments a sample buffer of the analysis is made of
MaxSegs == 2
\* number of segments of a buffer given to extractPitch alone
MaxExtractSegs == 3
\* length of the contours given to trimPitch and normalize alone
MaxArrLen == 3
\* length of the contours given to performDTW alone
MaxDtwLen == 3
\* number of phrases generateTrainingContent returns for a session
MaxPhrases == 2
\* number of recordings the user makes in one run of the App
MaxRecordings == 3
\* number of items saved to the history in one run of the App
MaxHistory == 3
MaxImport == 2

\* ------------------------------------------------- program constants
\* step = floor(sampleRate * 0.02), winSize = floor(sampleRate * 0.04)
StepMs == 20
WinMs == 40
\* the stride of the two sub-sampled loops
SubSample == 4
\* search range for the human voice, in Hz
MinFreq == 75
MaxFreq == 600
\* normalize scales the voiced values to NormBase .. NormBase + NormSpan
NormSpan == 80
NormBase == 10
\* the fallback visualization: 50 + 20 * sin(..) at 50 points
FallbackLength == 50
FallbackMid == 50
FallbackAmp == 20

\* ----------------------------------------------------------------- numbers
Inf == <<1, 0>>
NegInf == <<-1, 0>>
NaN == <<0, 0>>
Zero == <<0, 1>>

Abs(x) == IF x < 0 THEN -x ELSE x

RECURSIVE Gcd(_, _)
Gcd(a, b) == IF b = 0 THEN a ELSE Gcd(b, a % b)

Sign(x) == IF x > 0 THEN 1 ELSE IF x < 0 THEN -1 ELSE 0

\* the number n / d as the program's division gives it (x/0 is +-Infinity, 0/0 NaN)
Frac(n, d) ==
    IF d = 0 THEN <<Sign(n), 0>>
    ELSE LET g == Gcd(Abs(n), Abs(d))
             s == IF d < 0 THEN -1 ELSE 1
         IN  <<(s * n) \div g, (s * d) \div g>>

Num(n) == <<n, 1>>
IsNaN(a) == a = NaN
IsFinite(a) == a[2] # 0

RNeg(a) == <<-a[1], a[2]>>

RAdd(a, b) ==
    IF IsNaN(a) \/ IsNaN(b) THEN NaN
    ELSE IF ~IsFinite(a) /\ ~IsFinite(b) THEN (IF a = b THEN a ELSE NaN)
    ELSE IF ~IsFinite(a) THEN a
    ELSE IF ~IsFinite(b) THEN b
    ELSE IF a[2] = 1 /\ b[2] = 1 THEN <<a[1] + b[1], 1>>
    ELSE Frac(a[1] * b[2] + b[1] * a[2], a[2] * b[2])

RSub(a, b) == RAdd(a, RNeg(b))

RMul(a, b) ==
    IF IsNaN(a) \/ IsNaN(b) THEN NaN
    ELSE IF ~IsFinite(a) \/ ~IsFinite(b) THEN <<Sign(a[1]) * Sign(b[1]), 0>>
    ELSE Frac(a[1] * b[1], a[2] * b[2])

RDiv(a, b) ==
    IF IsNaN(a) \/ IsNaN(b) THEN NaN
    ELSE IF ~IsFinite(a) /\ ~IsFinite(b) THEN NaN
    ELSE IF ~IsFinite(a) THEN <<Sign(a[1]) * (IF b[1] < 0 THEN -1 ELSE 1), 0>>
    ELSE IF ~IsFinite(b) THEN Zero
    ELSE Frac(a[1] * b[2], a[2] * b[1])

\* Math.abs
RAbs(a) == <<Abs(a[1]), a[2]>>

\* a < b of the program: false when either side is NaN
RLt(a, b) ==
    IF IsNaN(a) \/ IsNaN(b) THEN FALSE
    ELSE IF a = b THEN FALSE
    ELSE IF a = NegInf \/ b = Inf THEN TRUE
    ELSE IF a = Inf \/ b = NegInf THEN FALSE
    ELSE a[1] * b[2] < b[1] * a[2]

RLe(a, b) == RLt(a, b) \/ (~IsNaN(a) /\ a = b)

\* a === b of the program: NaN equals nothing
REq(a, b) == ~IsNaN(a) /\ ~IsNaN(b) /\ a = b

\* Math.min of two and of three numbers: NaN when any argument is NaN
RMin2(a, b) ==
    IF IsNaN(a) \/ IsNaN(b) THEN NaN ELSE IF RLt(b, a) THEN b ELSE a

RMin3(a, b, c) == RMin2(RMin2(a, b), c)

RMax2(a, b) ==
    IF IsNaN(a) \/ IsNaN(b) THEN NaN ELSE IF RLt(a, b) THEN b ELSE a

\* Math.min(...s) and Math.max(...s) of a non-empty sequence
RECURSIVE MinOf(_)
MinOf(s) == IF Len(s) = 1 THEN s[1] ELSE RMin2(s[1], MinOf(Tail(s)))

RECURSIVE MaxOf(_)
MaxOf(s) == IF Len(s) = 1 THEN s[1] ELSE RMax2(s[1], MaxOf(Tail(s)))

\* ---------------------------------------------------------- sample buffers
\* A decoded buffer is described by the waveform of each of its 20 ms
\* segments and by the number of samples past the last whole window; the
\* samples themselves are computed from the description.  The last segment's
\* waveform runs to the end of the buffer.
\*   Z    digital silence
\*   Q    a constant 0.0099, every sample below the energy threshold
\*   W3, W4, W6   periodic waves of period 3, 4 and 6 samples, amplitude 0.3
\* samples are kept in units of 1/Scale of the [-1, 1] range
Scale == 100 * 100

Kinds == {"Z", "W4", "W6"}
\* "N" is a stretch of non-finite samples (NaN), which has no wave
ExtractKinds == {"Z", "Q", "W3", "W4", "W6", "N"}
Tails == {0, 1}
SampleRates == {1200, 1225}

\* one period of each wave, in units of 1/Scale
Period ==
    [Z |-> <<0>>,
     Q |-> <<99>>,
     W3 |-> <<3000, -1000, -2000>>,
     W4 |-> <<3000, -1000, -3000, 1000>>,
     W6 |-> <<3000, 1500, 0, -3000, -1500, 0>>]

Wave(kind, idx) == Period[kind][(idx % Len(Period[kind])) + 1]

step(sr) == (sr * StepMs) \div 1000
winSize(sr) == (sr * WinMs) \div 1000
minP(sr) == sr \div MaxFreq
maxP(sr) == sr \div MinFreq

\* channelData.length
BufLen(b, sr) ==
    IF b.pat = <<>> THEN 0
    ELSE (Len(b.pat) - 1) * step(sr) + winSize(sr) + b.tail

\* channelData[idx] for an index inside the buffer, in units of 1/Scale
KindAt(b, sr, idx) ==
    LET seg == (idx \div step(sr)) + 1
    IN  b.pat[IF seg > Len(b.pat) THEN Len(b.pat) ELSE seg]

channelData(b, sr, idx) == Wave(KindAt(b, sr, idx), idx)

\* whether channelData[idx] is a read past the end: a Float32Array gives
\* undefined there, which arithmetic turns into NaN
PastEnd(b, sr, idx) == idx >= BufLen(b, sr)

\* whether channelData[idx] is a stored sample that is not a finite number
NonFinite(b, sr, idx) == ~PastEnd(b, sr, idx) /\ KindAt(b, sr, idx) = "N"

\* whether the buffer holds a sample that is not a finite number
HasNonFinite(b) == \E k \in 1..Len(b.pat) : b.pat[k] = "N"

Buffers(kinds, maxSegs) ==
    { [pat |-> p, tail |-> t] :
        p \in UNION { [1..n -> kinds] : n \in 1..maxSegs }, t \in Tails }

\* ------------------------------------------------------------ extractPitch
EnergyThreshold == Frac(1, 100)

\* the loop of lines 86-88 from offset j on, in units of 1/Scale (i + j is
\* inside the buffer: i < length - winSize and j < winSize)
RECURSIVE EnergySum(_, _, _, _)
EnergySum(b, sr, i, j) ==
    IF j < winSize(sr)
    THEN Abs(channelData(b, sr, i + j)) + EnergySum(b, sr, i, j + SubSample)
    ELSE 0

\* whether a term of the loop of lines 86-88 is not a finite number, which
\* makes the sum NaN
EnergyIsNaN(b, sr, i) ==
    /\ HasNonFinite(b)
    /\ \E j \in 0..(winSize(sr) - 1) : j % SubSample = 0 /\ NonFinite(b, sr, i + j)

\* energy after line 89
energy(b, sr, i) ==
    IF EnergyIsNaN(b, sr, i) THEN NaN
    ELSE RDiv(Frac(EnergySum(b, sr, i, 0), Scale), Frac(winSize(sr), SubSample))

IsSilent(b, sr, i) == RLt(energy(b, sr, i), EnergyThreshold)

\* the loop of lines 102-104 for lag p from offset j on: the sum so far is
\* acc / Scale, or NaN once a term read past the end of the buffer
RECURSIVE amdfFrom(_, _, _, _, _, _, _)
amdfFrom(b, sr, i, p, j, acc, nan) ==
    IF j < winSize(sr)
    THEN IF nan \/ PastEnd(b, sr, i + j + p)
         THEN amdfFrom(b, sr, i, p, j + SubSample, acc, TRUE)
         ELSE amdfFrom(b, sr, i, p, j + SubSample,
                       acc + Abs(channelData(b, sr, i + j) - channelData(b, sr, i + j + p)),
                       FALSE)
    ELSE IF nan THEN NaN ELSE Frac(acc, Scale)

\* whether a term of the loop of lines 102-104 for lag p reads a sample that
\* is not a finite number, which makes the sum NaN
AmdfIsNaN(b, sr, i, p) ==
    /\ HasNonFinite(b)
    /\ \E j \in 0..(winSize(sr) - 1) :
          /\ j % SubSample = 0
          /\ NonFinite(b, sr, i + j) \/ NonFinite(b, sr, i + j + p)

amdf(b, sr, i, p) ==
    IF AmdfIsNaN(b, sr, i, p) THEN NaN ELSE amdfFrom(b, sr, i, p, 0, 0, FALSE)

\* the loop of lines 100-109 from lag p on; the result is bestPeriod
RECURSIVE LagSearch(_, _, _, _, _, _)
LagSearch(b, sr, i, p, bestPeriod, minAmdf) ==
    IF p <= maxP(sr)
    THEN LET a == amdf(b, sr, i, p)
         IN  IF RLt(a, minAmdf)
             THEN LagSearch(b, sr, i, p + 1, p, a)
             ELSE LagSearch(b, sr, i, p + 1, bestPeriod, minAmdf)
    ELSE bestPeriod

bestPeriodOf(b, sr, i) == LagSearch(b, sr, i, minP(sr), 0, Inf)

\* line 111 written as bestPeriod / sampleRate
FramePitchInverted(b, sr, i) ==
    IF IsSilent(b, sr, i) THEN Zero ELSE Frac(bestPeriodOf(b, sr, i), sr)

\* the value pushed for the frame that starts at sample i
FramePitch(b, sr, i) ==
    IF IsSilent(b, sr, i) THEN Zero ELSE Frac(sr, bestPeriodOf(b, sr, i))

\* ---------------------------------------------------------------- trimPitch
RECURSIVE TrimStart(_, _)
TrimStart(a, start) ==
    IF start < Len(a) /\ REq(a[start + 1], Zero)
    THEN TrimStart(a, start + 1) ELSE start

RECURSIVE TrimEnd(_, _)
TrimEnd(a, end) ==
    IF end >= 0 /\ REq(a[end + 1], Zero)
    THEN TrimEnd(a, end - 1) ELSE end

\* line 125 written as arr.slice(start, end)
trimPitchExclusiveEnd(a) ==
    LET start == TrimStart(a, 0)
        end == TrimEnd(a, Len(a) - 1)
    IN  IF start > end THEN <<>> ELSE SubSeq(a, start + 1, end)

trimPitch(a) ==
    LET start == TrimStart(a, 0)
        end == TrimEnd(a, Len(a) - 1)
    IN  IF start > end THEN <<>> ELSE SubSeq(a, start + 1, end + 1)

\* ---------------------------------------------------------------- normalize
\* line 245 written as v >= 0
IsNotNegative(v) == RLe(Zero, v)

IsPositive(v) == RLt(Zero, v)

\* line 249 written as Math.max(max - min, 1)
RangeOfAtLeastOne(min, max) == RMax2(RSub(max, min), Num(1))

\* max - min || 1
RangeOf(min, max) ==
    LET d == RSub(max, min)
    IN  IF d = Zero \/ IsNaN(d) THEN Num(1) ELSE d

\* line 250 without the offset: the lowest voiced value is scaled to 0
NormValueNoBase(v, min, range) ==
    IF REq(v, Zero) THEN Zero
    ELSE RMul(RDiv(RSub(v, min), range), Num(NormSpan))

NormValue(v, min, range) ==
    IF REq(v, Zero) THEN Zero
    ELSE RAdd(RMul(RDiv(RSub(v, min), range), Num(NormSpan)), Num(NormBase))

\* lines 245-248 without the filter: min and max taken over every value
normalizeUnfiltered(a) ==
    IF Len(a) = 0 THEN a
    ELSE LET min == MinOf(a)
             max == MaxOf(a)
             range == RangeOf(min, max)
         IN  [k \in 1..Len(a) |-> NormValue(a[k], min, range)]

normalize(a) ==
    LET nonZeros == SelectSeq(a, IsPositive)
    IN  IF Len(nonZeros) = 0 THEN a
        ELSE LET min == MinOf(nonZeros)
                 max == MaxOf(nonZeros)
                 range == RangeOf(min, max)
             IN  [k \in 1..Len(a) |-> NormValue(a[k], min, range)]

\* --------------------------------------------------------------- performDTW
\* lines 142-146 without Math.abs
DistSigned(ref, user, i, j) == RSub(ref[i + 1], user[j + 1])

\* Math.abs(ref[i] - user[j]), i and j 0-based
Dist(ref, user, i, j) == RAbs(RSub(ref[i + 1], user[j + 1]))

\* line 150 without the diagonal move
CostMatrixNoDiagonal(ref, user) ==
    LET N == Len(ref)
        M == Len(user)
        C[i \in 0..(N - 1), j \in 0..(M - 1)] ==
            IF i = 0 /\ j = 0 THEN Dist(ref, user, 0, 0)
            ELSE IF j = 0 THEN RAdd(C[i - 1, 0], Dist(ref, user, i, 0))
            ELSE IF i = 0 THEN RAdd(C[0, j - 1], Dist(ref, user, 0, j))
            ELSE RAdd(Dist(ref, user, i, j), RMin2(C[i - 1, j], C[i, j - 1]))
    IN  [i \in 0..(N - 1) |-> [j \in 0..(M - 1) |-> C[i, j]]]

\* line 150 written with Math.max
CostMatrixMax(ref, user) ==
    LET N == Len(ref)
        M == Len(user)
        C[i \in 0..(N - 1), j \in 0..(M - 1)] ==
            IF i = 0 /\ j = 0 THEN Dist(ref, user, 0, 0)
            ELSE IF j = 0 THEN RAdd(C[i - 1, 0], Dist(ref, user, i, 0))
            ELSE IF i = 0 THEN RAdd(C[0, j - 1], Dist(ref, user, 0, j))
            ELSE RAdd(Dist(ref, user, i, j),
                      RMax2(RMax2(C[i - 1, j], C[i, j - 1]), C[i - 1, j - 1]))
    IN  [i \in 0..(N - 1) |-> [j \in 0..(M - 1) |-> C[i, j]]]

\* the cost matrix after lines 140-152, for non-empty ref and user
CostMatrix(ref, user) ==
    LET N == Len(ref)
        M == Len(user)
        C[i \in 0..(N - 1), j \in 0..(M - 1)] ==
            IF i = 0 /\ j = 0 THEN Dist(ref, user, 0, 0)
            ELSE IF j = 0 THEN RAdd(C[i - 1, 0], Dist(ref, user, i, 0))
            ELSE IF i = 0 THEN RAdd(C[0, j - 1], Dist(ref, user, 0, j))
            ELSE RAdd(Dist(ref, user, i, j),
                      RMin3(C[i - 1, j], C[i, j - 1], C[i - 1, j - 1]))
    IN  [i \in 0..(N - 1) |-> [j \in 0..(M - 1) |-> C[i, j]]]

\* line 161 written with Math.max: the move to the dearest predecessor
BacktrackMoveMax(c, i, j) ==
    IF i = 0 THEN <<i, j - 1>>
    ELSE IF j = 0 THEN <<i - 1, j>>
    ELSE LET max == RMax2(RMax2(c[i - 1][j], c[i][j - 1]), c[i - 1][j - 1])
         IN  IF REq(max, c[i - 1][j - 1]) THEN <<i - 1, j - 1>>
             ELSE IF REq(max, c[i - 1][j]) THEN <<i - 1, j>>
             ELSE <<i, j - 1>>

\* lines 163-166 with the two comparisons never matching: always j--
BacktrackMoveUserStep(c, i, j) ==
    IF i = 0 THEN <<i, j - 1>>
    ELSE IF j = 0 THEN <<i - 1, j>>
    ELSE <<i, j - 1>>

\* lines 164-165 in the other order: the reference step is tried first
BacktrackMoveRefFirst(c, i, j) ==
    IF i = 0 THEN <<i, j - 1>>
    ELSE IF j = 0 THEN <<i - 1, j>>
    ELSE LET min == RMin3(c[i - 1][j], c[i][j - 1], c[i - 1][j - 1])
         IN  IF REq(min, c[i - 1][j]) THEN <<i - 1, j>>
             ELSE IF REq(min, c[i - 1][j - 1]) THEN <<i - 1, j - 1>>
             ELSE <<i, j - 1>>

\* lines 160-166 taking the diagonal move without looking at the borders
BacktrackMoveNoBorder(c, i, j) == <<i - 1, j - 1>>

\* one iteration of the loop of lines 159-169: the next (i, j)
BacktrackMove(c, i, j) ==
    IF i = 0 THEN <<i, j - 1>>
    ELSE IF j = 0 THEN <<i - 1, j>>
    ELSE LET min == RMin3(c[i - 1][j], c[i][j - 1], c[i - 1][j - 1])
         IN  IF REq(min, c[i - 1][j - 1]) THEN <<i - 1, j - 1>>
             ELSE IF REq(min, c[i - 1][j]) THEN <<i - 1, j>>
             ELSE <<i, j - 1>>

\* line 170 left out
ReverseForgotten(s) == s

Reverse(s) == [k \in 1..Len(s) |-> s[Len(s) + 1 - k]]

\* Array(N) without fill(0): the holes read as undefined
ZerosUnfilled(n) == [k \in 1..n |-> NaN]

Zeros(n) == [k \in 1..n |-> Zero]

\* lines 176-178 ending one pair before the end of the path
RECURSIVE WarpSkipsLast(_, _, _)
WarpSkipsLast(aligned, p, user) ==
    IF Len(p) <= 1 THEN aligned
    ELSE WarpSkipsLast([aligned EXCEPT ![p[1][1] + 1] = user[p[1][2] + 1]], Tail(p), user)

\* lines 176-178 keeping the first value written to a position
RECURSIVE WarpFirstWins(_, _, _)
WarpFirstWins(aligned, p, user) ==
    IF p = <<>> THEN aligned
    ELSE [WarpFirstWins(aligned, Tail(p), user) EXCEPT ![p[1][1] + 1] = user[p[1][2] + 1]]

\* lines 174-178: the path's pairs written in order onto an array of N zeros
RECURSIVE Warp(_, _, _)
Warp(aligned, p, user) ==
    IF p = <<>> THEN aligned
    ELSE Warp([aligned EXCEPT ![p[1][1] + 1] = user[p[1][2] + 1]], Tail(p), user)

\* ------------------------------------------------------------------- state
VARIABLES
    pc,                   \* the position of analyzeAudio
    sampleRate,           \* the rate of the decoding AudioContext
    referenceAudioData,   \* whether the phrase comes with reference audio
    userBuffer,           \* the decoded recording
    refBuffer,            \* the decoded reference
    exI,                  \* i of extractPitch's frame loop
    refPitch,
    userPitch,
    refPitchNorm,
    userPitchNorm,
    refTrimmed,
    userTrimmed,
    cost,                 \* performDTW's cost matrix
    bi,                   \* performDTW's i
    bj,                   \* performDTW's j
    path,
    alignedUser,
    pitchCurveReference,
    pitchCurveUser,
    arr,                  \* the argument of a single call of a contour helper
    out,                  \* what that call returned
    op,                   \* which helper was called
    analyses,             \* the locals of each of several analyzeAudio calls in progress
    currentScreen,        \* the App's state, as its useState hooks hold it
    config,               \* whether a session configuration is set
    phrases,
    currentPhraseIndex,
    analysisResult,       \* the number of the recording it analyses, or NoResult
    sessionAttempts,
    currentUserBlob,      \* the number of the recording, or NoResult
    isProcessing,
    history,
    recordings,           \* how many recordings were made so far
    uuidsIssued           \* how many ids crypto.randomUUID has returned

appVars == <<currentScreen, config, phrases, currentPhraseIndex, analysisResult,
             sessionAttempts, currentUserBlob, isProcessing, history, recordings,
             uuidsIssued>>

vars == <<pc, sampleRate, referenceAudioData, userBuffer, refBuffer, exI,
          refPitch, userPitch, refPitchNorm, userPitchNorm, refTrimmed,
          userTrimmed, cost, bi, bj, path, alignedUser, pitchCurveReference,
          pitchCurveUser, arr, out, op, analyses, appVars>>

inputVars == <<sampleRate, referenceAudioData, userBuffer, refBuffer>>
pitchVars == <<refPitch, userPitch>>
postVars == <<refPitchNorm, userPitchNorm, refTrimmed, userTrimmed>>
dtwVars == <<cost, bi, bj, path, alignedUser>>
curveVars == <<pitchCurveReference, pitchCurveUser>>
callVars == <<arr, out, op>>
parVars == <<analyses>>

NoBuffer == [pat |-> <<>>, tail |-> 0]

\* no analyzeAudio call besides the one the other variables follow
NoAnalyses == <<>>

\* null, for analysisResult and currentUserBlob
NoResult == 0

\* the App as it is mounted: the setup screen, nothing recorded, and the
\* history stored by an earlier run (none, or one item)
AppMounted ==
    /\ currentScreen = "SETUP"
    /\ config = FALSE
    /\ phrases = <<>>
    /\ currentPhraseIndex = 0
    /\ analysisResult = NoResult
    /\ sessionAttempts = <<>>
    /\ currentUserBlob = NoResult
    /\ isProcessing = FALSE
    /\ recordings = 0
    /\ uuidsIssued = 0

\* ------------------------------------------------------ fallback contours
\* 20 * sin(i * 0.2) and 20 * sin(i * 0.25) for i = 0 .. 49, in thousandths,
\* rounded to the nearest thousandth
SinFifth ==
    <<
       0, 3973, 7788, 11293, 14347, 16829, 18641, 19709, 19991, 19477,
       18186, 16170, 13509, 10310, 6700, 2822, -1167, -5111, -8850, -12237,
       -15136, -17432, -19032, -19874, -19923, -19178, -17669, -15455, -12625, -9292,
       -5588, -1662, 2331, 6231, 9882, 13140, 15873, 17974, 19358, 19971,
       19787, 18815, 17092, 14688, 11698, 8242, 4458, 496, -3487, -7330 >>

SinQuarter ==
    <<
       0, 4948, 9589, 13633, 16829, 18980, 19950, 19680, 18186, 15561,
       11969, 7633, 2822, -2164, -7016, -11431, -15136, -17900, -19551, -19986,
       -19178, -17179, -14111, -10166, -5588, -664, 4302, 9001, 13140, 16462,
       18760, 19892, 19787, 18452, 15970, 12494, 8242, 3478, -1503, -6390,
       -10880, -14694, -17594, -19400, -20000, -19356, -17509, -14573, -10731, -6222 >>

\* lines 271-272 without the 50 +
FallbackCurveNoMid(table) ==
    [k \in 1..FallbackLength |-> [time |-> k - 1, value |-> Frac(table[k], 1000)]]

\* Array.from({length: 50}, (_, i) => ({time: i, value: 50 + 20*Math.sin(i*f)}))
FallbackCurve(table) ==
    [k \in 1..FallbackLength |->
        [time |-> k - 1,
         value |-> RAdd(Num(FallbackMid), Frac(table[k], 1000))]]

\* arr.map((v, i) => ({ time: i, value: v }))
ToCurve(a) == [k \in 1..Len(a) |-> [time |-> k - 1, value |-> a[k]]]

\* --------------------------------------------------------------- analyzeAudio
Init ==
    /\ pc = "decodeUser"
    /\ sampleRate \in SampleRates
    /\ referenceAudioData \in BOOLEAN
    /\ userBuffer \in Buffers(Kinds, MaxSegs)
    /\ refBuffer \in (IF referenceAudioData THEN Buffers(Kinds, MaxSegs)
                                           ELSE {NoBuffer})
    /\ exI = 0
    /\ refPitch = <<>> /\ userPitch = <<>>
    /\ refPitchNorm = <<>> /\ userPitchNorm = <<>>
    /\ refTrimmed = <<>> /\ userTrimmed = <<>>
    /\ cost = <<>> /\ bi = 0 /\ bj = 0 /\ path = <<>> /\ alignedUser = <<>>
    /\ pitchCurveReference = <<>> /\ pitchCurveUser = <<>>
    /\ arr = <<>> /\ out = <<>> /\ op = "none"
    /\ AppMounted /\ history = <<>>
    /\ analyses = NoAnalyses

\* lines 208-209: the recording decodes
DecodeUser ==
    /\ pc = "decodeUser"
    /\ pc' = "prepareRef"
    /\ UNCHANGED <<inputVars, parVars, appVars, exI, pitchVars, postVars, dtwVars, curveVars, callVars>>

\* lines 212-236 without reference audio: refArrayBuffer stays null and the
\* block of lines 236-266 is skipped
PrepareRefAbsent ==
    /\ pc = "prepareRef"
    /\ ~referenceAudioData
    /\ pc' = "await"
    /\ UNCHANGED <<inputVars, parVars, appVars, exI, pitchVars, postVars, dtwVars, curveVars, callVars>>

\* lines 214-234: the reference bytes are unpacked
PrepareRef ==
    /\ pc = "prepareRef"
    /\ referenceAudioData
    /\ pc' = "decodeRef"
    /\ UNCHANGED <<inputVars, parVars, appVars, exI, pitchVars, postVars, dtwVars, curveVars, callVars>>

\* line 237: the reference decodes
DecodeRef ==
    /\ pc = "decodeRef"
    /\ pc' = "extractRef"
    /\ exI' = 0
    /\ UNCHANGED <<inputVars, parVars, appVars, pitchVars, postVars, dtwVars, curveVars, callVars>>

\* where the try block of lines 206-267 can throw: decodeAudioData rejects
\* bytes it cannot decode, atob throws on a malformed reference string
ThrowPoints ==
    {"decodeUser", "decodeRef"} \cup (IF referenceAudioData THEN {"prepareRef"} ELSE {})

\* lines 268-273
Catch ==
    /\ pc \in ThrowPoints
    /\ pitchCurveReference' = FallbackCurve(SinFifth)
    /\ pitchCurveUser' = FallbackCurve(SinQuarter)
    /\ pc' = "await"
    /\ UNCHANGED <<inputVars, parVars, appVars, exI, pitchVars, postVars, dtwVars, callVars>>

\* line 82, the loop condition of extractPitch
HasFrame(b) == exI < BufLen(b, sampleRate) - winSize(sampleRate)

\* line 240, one iteration of the frame loop of extractPitch(refAudioBuffer)
ExtractRefFrame ==
    /\ pc = "extractRef"
    /\ HasFrame(refBuffer)
    /\ refPitch' = Append(refPitch, FramePitch(refBuffer, sampleRate, exI))
    /\ exI' = exI + step(sampleRate)
    /\ UNCHANGED <<pc, inputVars, parVars, appVars, userPitch, postVars, dtwVars, curveVars, callVars>>

\* line 240, the frame loop ends and extractPitch returns
ExtractRefDone ==
    /\ pc = "extractRef"
    /\ ~HasFrame(refBuffer)
    /\ pc' = "extractUser"
    /\ exI' = 0
    /\ UNCHANGED <<inputVars, parVars, appVars, pitchVars, postVars, dtwVars, curveVars, callVars>>

\* line 241, one iteration of the frame loop of extractPitch(userAudioBuffer)
ExtractUserFrame ==
    /\ pc = "extractUser"
    /\ HasFrame(userBuffer)
    /\ userPitch' = Append(userPitch, FramePitch(userBuffer, sampleRate, exI))
    /\ exI' = exI + step(sampleRate)
    /\ UNCHANGED <<pc, inputVars, parVars, appVars, refPitch, postVars, dtwVars, curveVars, callVars>>

ExtractUserDone ==
    /\ pc = "extractUser"
    /\ ~HasFrame(userBuffer)
    /\ pc' = "normalize"
    /\ exI' = 0
    /\ UNCHANGED <<inputVars, parVars, appVars, pitchVars, postVars, dtwVars, curveVars, callVars>>

\* lines 253-254
Normalize ==
    /\ pc = "normalize"
    /\ refPitchNorm' = normalize(refPitch)
    /\ userPitchNorm' = normalize(userPitch)
    /\ pc' = "trim"
    /\ UNCHANGED <<inputVars, parVars, appVars, exI, pitchVars, refTrimmed, userTrimmed, dtwVars,
                   curveVars, callVars>>

\* lines 257-258
Trim ==
    /\ pc = "trim"
    /\ refTrimmed' = trimPitch(refPitchNorm)
    /\ userTrimmed' = trimPitch(userPitchNorm)
    /\ pc' = "dtw"
    /\ UNCHANGED <<inputVars, parVars, appVars, exI, pitchVars, refPitchNorm, userPitchNorm, dtwVars,
                   curveVars, callVars>>

\* line 134 written as Array(M).fill(0)
DTWDegenerateUserLength ==
    /\ pc = "dtw"
    /\ 0 \in {Len(refTrimmed), Len(userTrimmed)}
    /\ alignedUser' = Zeros(Len(userTrimmed))
    /\ pc' = "format"
    /\ UNCHANGED <<inputVars, parVars, appVars, exI, pitchVars, postVars, cost, bi, bj, path,
                   curveVars, callVars>>

\* line 134: performDTW(refTrimmed, userTrimmed) with an empty argument
DTWDegenerate ==
    /\ pc = "dtw"
    /\ 0 \in {Len(refTrimmed), Len(userTrimmed)}
    /\ alignedUser' = Zeros(Len(refTrimmed))
    /\ pc' = "format"
    /\ UNCHANGED <<inputVars, parVars, appVars, exI, pitchVars, postVars, cost, bi, bj, path,
                   curveVars, callVars>>

\* lines 140-157: the cost matrix is filled and backtracking starts at the end
DTWCost ==
    /\ pc = "dtw"
    /\ 0 \notin {Len(refTrimmed), Len(userTrimmed)}
    /\ cost' = CostMatrix(refTrimmed, userTrimmed)
    /\ bi' = Len(refTrimmed) - 1
    /\ bj' = Len(userTrimmed) - 1
    /\ path' = << <<Len(refTrimmed) - 1, Len(userTrimmed) - 1>> >>
    /\ pc' = "backtrack"
    /\ UNCHANGED <<inputVars, parVars, appVars, exI, pitchVars, postVars, alignedUser, curveVars, callVars>>

\* lines 159-169, one iteration of the backtracking loop
BacktrackStep ==
    /\ pc = "backtrack"
    /\ <<bi, bj>> # <<0, 0>>
    /\ LET m == BacktrackMove(cost, bi, bj)
       IN  /\ bi' = m[1]
           /\ bj' = m[2]
           /\ path' = Append(path, m)
    /\ UNCHANGED <<pc, inputVars, parVars, appVars, exI, pitchVars, postVars, cost, alignedUser,
                   curveVars, callVars>>

\* lines 170-180: the loop has ended; the path is reversed and the user values
\* are written onto the reference timeline
DTWConstruct ==
    /\ pc = "backtrack"
    /\ <<bi, bj>> = <<0, 0>>
    /\ path' = Reverse(path)
    /\ alignedUser' = Warp(Zeros(Len(refTrimmed)), Reverse(path), userTrimmed)
    /\ pc' = "format"
    /\ UNCHANGED <<inputVars, parVars, appVars, exI, pitchVars, postVars, cost, bi, bj, curveVars, callVars>>

\* lines 264-265
Format ==
    /\ pc = "format"
    /\ pitchCurveReference' = ToCurve(refTrimmed)
    /\ pitchCurveUser' = ToCurve(alignedUser)
    /\ pc' = "await"
    /\ UNCHANGED <<inputVars, parVars, appVars, exI, pitchVars, postVars, dtwVars, callVars>>

\* lines 276-284: the coach feedback arrives and the result is returned
Return ==
    /\ pc = "await"
    /\ pc' = "returned"
    /\ UNCHANGED <<inputVars, parVars, appVars, exI, pitchVars, postVars, dtwVars, curveVars, callVars>>

Next ==
    \/ DecodeUser
    \/ PrepareRefAbsent
    \/ PrepareRef
    \/ DecodeRef
    \/ Catch
    \/ ExtractRefFrame
    \/ ExtractRefDone
    \/ ExtractUserFrame
    \/ ExtractUserDone
    \/ Normalize
    \/ Trim
    \/ DTWDegenerate
    \/ DTWCost
    \/ BacktrackStep
    \/ DTWConstruct
    \/ Format
    \/ Return

Spec == Init /\ [][Next]_vars

\* ------------------------------------------------ extractPitch on its own
\* extractPitch applied to one buffer, drawn from a wider family of buffers
InitExtract ==
    /\ pc = "extractRef"
    /\ sampleRate \in SampleRates
    /\ referenceAudioData = TRUE
    /\ userBuffer = NoBuffer
    /\ refBuffer \in Buffers(ExtractKinds, MaxExtractSegs) \cup {NoBuffer}
    /\ exI = 0
    /\ refPitch = <<>> /\ userPitch = <<>>
    /\ refPitchNorm = <<>> /\ userPitchNorm = <<>>
    /\ refTrimmed = <<>> /\ userTrimmed = <<>>
    /\ cost = <<>> /\ bi = 0 /\ bj = 0 /\ path = <<>> /\ alignedUser = <<>>
    /\ pitchCurveReference = <<>> /\ pitchCurveUser = <<>>
    /\ arr = <<>> /\ out = <<>> /\ op = "none"
    /\ AppMounted /\ history = <<>>
    /\ analyses = NoAnalyses

NextExtract ==
    \/ ExtractRefFrame
    \/ ExtractRefDone

SpecExtract == InitExtract /\ [][NextExtract]_vars

\* ---------------------------------------- trimPitch and normalize on their own
Contours(values, maxLen) == UNION { [1..n -> values] : n \in 0..maxLen }

ArrValues == {Zero, Num(5), Frac(11, 2), Num(7), Inf}

\* the contour [0,0,5,0,7,0,0]
TrimExample == <<Zero, Zero, Num(5), Zero, Num(7), Zero, Zero>>

InitPost ==
    /\ pc = "call"
    /\ sampleRate \in {1200}
    /\ referenceAudioData = FALSE
    /\ userBuffer = NoBuffer
    /\ refBuffer = NoBuffer
    /\ exI = 0
    /\ refPitch = <<>> /\ userPitch = <<>>
    /\ refPitchNorm = <<>> /\ userPitchNorm = <<>>
    /\ refTrimmed = <<>> /\ userTrimmed = <<>>
    /\ cost = <<>> /\ bi = 0 /\ bj = 0 /\ path = <<>> /\ alignedUser = <<>>
    /\ pitchCurveReference = <<>> /\ pitchCurveUser = <<>>
    /\ arr \in Contours(ArrValues, MaxArrLen) \cup {TrimExample}
    /\ out = <<>>
    /\ op = "none"
    /\ AppMounted /\ history = <<>>
    /\ analyses = NoAnalyses

\* a call trimPitch(arr)
CallTrimPitch ==
    /\ pc = "call"
    /\ op = "none"
    /\ out' = trimPitch(arr)
    /\ op' = "trimPitch"
    /\ UNCHANGED <<pc, inputVars, parVars, appVars, exI, pitchVars, postVars, dtwVars, curveVars, arr>>

\* a call normalize(arr)
CallNormalize ==
    /\ pc = "call"
    /\ op = "none"
    /\ out' = normalize(arr)
    /\ op' = "normalize"
    /\ UNCHANGED <<pc, inputVars, parVars, appVars, exI, pitchVars, postVars, dtwVars, curveVars, arr>>

\* a second call, normalize(out), on the contour the first call returned
CallNormalizeAgain ==
    /\ pc = "call"
    /\ op = "normalize"
    /\ out' = normalize(out)
    /\ op' = "normalizeAgain"
    /\ UNCHANGED <<pc, inputVars, parVars, appVars, exI, pitchVars, postVars, dtwVars, curveVars, arr>>

\* lines 253-258, the order of analyzeAudio: trimPitch on what normalize returned
CallTrimAfterNormalize ==
    /\ pc = "call"
    /\ op = "normalize"
    /\ out' = trimPitch(out)
    /\ op' = "normalizeThenTrim"
    /\ UNCHANGED <<pc, inputVars, parVars, appVars, exI, pitchVars, postVars, dtwVars, curveVars, arr>>

\* the other order: normalize on what trimPitch returned
CallNormalizeAfterTrim ==
    /\ pc = "call"
    /\ op = "trimPitch"
    /\ out' = normalize(out)
    /\ op' = "trimThenNormalize"
    /\ UNCHANGED <<pc, inputVars, parVars, appVars, exI, pitchVars, postVars, dtwVars, curveVars, arr>>

NextPost ==
    \/ CallTrimPitch
    \/ CallNormalize
    \/ CallNormalizeAgain
    \/ CallTrimAfterNormalize
    \/ CallNormalizeAfterTrim

SpecPost == InitPost /\ [][NextPost]_vars

\* -------------------------------------------------- performDTW on its own
DtwValues == {Zero, Num(10), Num(90)}

\* the contours [10,50,90,50,10] and [10,90,50,10]
ExampleRef == <<Num(10), Num(50), Num(90), Num(50), Num(10)>>
ExampleUser == <<Num(10), Num(90), Num(50), Num(10)>>

\* performDTW(refTrimmed, userTrimmed) for every pair of bounded contours;
\* the formatting of lines 264-265 follows as in analyzeAudio
InitDTW ==
    /\ pc = "dtw"
    /\ sampleRate \in {1200}
    /\ referenceAudioData = TRUE
    /\ userBuffer = NoBuffer
    /\ refBuffer = NoBuffer
    /\ exI = 0
    /\ refPitch = <<>> /\ userPitch = <<>>
    /\ refPitchNorm = <<>> /\ userPitchNorm = <<>>
    /\ \E pair \in (Contours(DtwValues, MaxDtwLen) \X Contours(DtwValues, MaxDtwLen))
                      \cup {<<ExampleRef, ExampleUser>>} :
          /\ refTrimmed = pair[1]
          /\ userTrimmed = pair[2]
    /\ cost = <<>> /\ bi = 0 /\ bj = 0 /\ path = <<>> /\ alignedUser = <<>>
    /\ pitchCurveReference = <<>> /\ pitchCurveUser = <<>>
    /\ arr = <<>> /\ out = <<>> /\ op = "none"
    /\ AppMounted /\ history = <<>>
    /\ analyses = NoAnalyses

NextDTW ==
    \/ DTWDegenerate
    \/ DTWCost
    \/ BacktrackStep
    \/ DTWConstruct
    \/ Format

SpecDTW == InitDTW /\ [][NextDTW]_vars

\* ------------------------------------------- several analyses in progress
\* extractPitch as one call: a value for every frame start 0, step, 2*step,
\* ... below length - winSize
extractPitch(b, sr) ==
    LET room == BufLen(b, sr) - winSize(sr)
        n == IF room <= 0 THEN 0 ELSE ((room - 1) \div step(sr)) + 1
    IN  [k \in 1..n |-> FramePitch(b, sr, (k - 1) * step(sr))]

\* the loop of lines 158-169 from (i, j) on
RECURSIVE Backtrack(_, _, _, _)
Backtrack(c, i, j, p) ==
    IF <<i, j>> = <<0, 0>> THEN p
    ELSE LET mv == BacktrackMove(c, i, j)
         IN  Backtrack(c, mv[1], mv[2], Append(p, mv))

\* performDTW as one call
performDTW(ref, user) ==
    LET N == Len(ref)
        M == Len(user)
    IN  IF 0 \in {N, M} THEN Zeros(N)
        ELSE LET c == CostMatrix(ref, user)
                 p == Backtrack(c, N - 1, M - 1, << <<N - 1, M - 1>> >>)
             IN  Warp(Zeros(N), Reverse(p), user)

\* the two analyzeAudio calls in progress and the buffers they decode
Analyses == {"first", "second"}

ParBuffers ==
    { [pat |-> <<"W4", "W6", "W4">>, tail |-> 1],
      [pat |-> <<"Z", "W6", "W4">>, tail |-> 0] }

\* the locals of a call after line 237: both buffers decoded, nothing computed
Decoded(ref, user) ==
    [pc |-> "extract", refBuffer |-> ref, userBuffer |-> user,
     refPitch |-> <<>>, userPitch |-> <<>>,
     refPitchNorm |-> <<>>, userPitchNorm |-> <<>>,
     refTrimmed |-> <<>>, userTrimmed |-> <<>>, alignedUser |-> <<>>]

InitPar ==
    /\ pc = "par"
    /\ sampleRate \in SampleRates
    /\ referenceAudioData = TRUE
    /\ userBuffer = NoBuffer
    /\ refBuffer = NoBuffer
    /\ exI = 0
    /\ refPitch = <<>> /\ userPitch = <<>>
    /\ refPitchNorm = <<>> /\ userPitchNorm = <<>>
    /\ refTrimmed = <<>> /\ userTrimmed = <<>>
    /\ cost = <<>> /\ bi = 0 /\ bj = 0 /\ path = <<>> /\ alignedUser = <<>>
    /\ pitchCurveReference = <<>> /\ pitchCurveUser = <<>>
    /\ arr = <<>> /\ out = <<>> /\ op = "none"
    /\ AppMounted /\ history = <<>>
    /\ analyses \in [Analyses -> { Decoded(r, u) : r \in ParBuffers, u \in ParBuffers }]

aloneVars == <<pc, inputVars, appVars, exI, pitchVars, postVars, dtwVars, curveVars, callVars>>

\* lines 240-241 of the call a
ParExtract(a) ==
    /\ analyses[a].pc = "extract"
    /\ analyses' = [analyses EXCEPT
                       ![a].refPitch = extractPitch(analyses[a].refBuffer, sampleRate),
                       ![a].userPitch = extractPitch(analyses[a].userBuffer, sampleRate),
                       ![a].pc = "normalize"]
    /\ UNCHANGED aloneVars

\* lines 244-254 of the call a, with the result kept in storage that all
\* calls share
ParNormalizeShared(a) ==
    /\ analyses[a].pc = "normalize"
    /\ analyses' = [b \in Analyses |->
                       [analyses[b] EXCEPT
                           !.refPitchNorm = normalize(analyses[a].refPitch),
                           !.userPitchNorm = normalize(analyses[a].userPitch),
                           !.pc = IF b = a THEN "trim" ELSE @]]
    /\ UNCHANGED aloneVars

\* lines 244-254 of the call a
ParNormalize(a) ==
    /\ analyses[a].pc = "normalize"
    /\ analyses' = [analyses EXCEPT
                       ![a].refPitchNorm = normalize(analyses[a].refPitch),
                       ![a].userPitchNorm = normalize(analyses[a].userPitch),
                       ![a].pc = "trim"]
    /\ UNCHANGED aloneVars

\* lines 257-258 of the call a
ParTrim(a) ==
    /\ analyses[a].pc = "trim"
    /\ analyses' = [analyses EXCEPT
                       ![a].refTrimmed = trimPitch(analyses[a].refPitchNorm),
                       ![a].userTrimmed = trimPitch(analyses[a].userPitchNorm),
                       ![a].pc = "align"]
    /\ UNCHANGED aloneVars

\* line 261 of the call a
ParAlign(a) ==
    /\ analyses[a].pc = "align"
    /\ analyses' = [analyses EXCEPT
                       ![a].alignedUser = performDTW(analyses[a].refTrimmed,
                                                     analyses[a].userTrimmed),
                       ![a].pc = "done"]
    /\ UNCHANGED aloneVars

NextPar ==
    \/ \E a \in Analyses : ParExtract(a)
    \/ \E a \in Analyses : ParNormalize(a)
    \/ \E a \in Analyses : ParTrim(a)
    \/ \E a \in Analyses : ParAlign(a)

SpecPar == InitPar /\ [][NextPar]_vars

\* ------------------------------------------------------------------ the App
\* The handlers of the App component.  An analysis result is identified by
\* the number of the recording it analyses; a history item by the id
\* crypto.randomUUID gave it (the ids are fresh: the next unused number).
audioVars == <<pc, inputVars, parVars, exI, pitchVars, postVars, dtwVars, curveVars, callVars>>

\* setHistory(prev => [...prev, newItem]) of saveToHistory
saveToHistory(h, result, id) == Append(h, [id |-> id, result |-> result])

\* the item of the history an earlier run left in localStorage
StoredItem == [id |-> 0, result |-> NoResult]

InitApp ==
    /\ pc = "app"
    /\ analyses = NoAnalyses
    /\ sampleRate \in {1200}
    /\ referenceAudioData = FALSE
    /\ userBuffer = NoBuffer
    /\ refBuffer = NoBuffer
    /\ exI = 0
    /\ refPitch = <<>> /\ userPitch = <<>>
    /\ refPitchNorm = <<>> /\ userPitchNorm = <<>>
    /\ refTrimmed = <<>> /\ userTrimmed = <<>>
    /\ cost = <<>> /\ bi = 0 /\ bj = 0 /\ path = <<>> /\ alignedUser = <<>>
    /\ pitchCurveReference = <<>> /\ pitchCurveUser = <<>>
    /\ arr = <<>> /\ out = <<>> /\ op = "none"
    /\ AppMounted
    /\ history \in {<<>>, <<StoredItem>>}

\* lines 83-101: generateTrainingContent returns n phrases
startSession ==
    /\ pc = "app"
    /\ currentScreen = "SETUP"
    /\ ~isProcessing
    /\ \E n \in 0..MaxPhrases : phrases' = [k \in 1..n |-> "generated"]
    /\ config' = TRUE
    /\ currentPhraseIndex' = 0
    /\ sessionAttempts' = <<>>
    /\ currentScreen' = "TRAINING"
    /\ UNCHANGED <<audioVars, analysisResult, currentUserBlob, isProcessing, history,
                   recordings, uuidsIssued>>

\* line 275, onHistory of the setup screen
OpenHistory ==
    /\ pc = "app"
    /\ currentScreen = "SETUP"
    /\ ~isProcessing
    /\ currentScreen' = "HISTORY"
    /\ UNCHANGED <<audioVars, config, phrases, currentPhraseIndex, analysisResult,
                   sessionAttempts, currentUserBlob, isProcessing, history,
                   recordings, uuidsIssued>>

\* line 283, onBack of the history screen
HistoryBack ==
    /\ pc = "app"
    /\ currentScreen = "HISTORY"
    /\ currentScreen' = "SETUP"
    /\ UNCHANGED <<audioVars, config, phrases, currentPhraseIndex, analysisResult,
                   sessionAttempts, currentUserBlob, isProcessing, history,
                   recordings, uuidsIssued>>

\* lines 103-120: a recording ends; the overlay is up while analyzeAudio runs
handleRecordingFinished ==
    /\ pc = "app"
    /\ currentScreen = "TRAINING"
    /\ Len(phrases) > 0
    /\ ~isProcessing
    /\ recordings < MaxRecordings
    /\ recordings' = recordings + 1
    /\ isProcessing' = TRUE
    /\ currentUserBlob' = recordings + 1
    /\ UNCHANGED <<audioVars, currentScreen, config, phrases, currentPhraseIndex,
                   analysisResult, sessionAttempts, history, uuidsIssued>>

\* lines 122-127: analyzeAudio has resolved
AnalysisResolved ==
    /\ pc = "app"
    /\ isProcessing
    /\ analysisResult' = currentUserBlob
    /\ sessionAttempts' = Append(sessionAttempts, currentUserBlob)
    /\ isProcessing' = FALSE
    /\ currentScreen' = "RESULT"
    /\ UNCHANGED <<audioVars, config, phrases, currentPhraseIndex, currentUserBlob,
                   history, recordings, uuidsIssued>>

\* lines 186-190
handleRetry ==
    /\ pc = "app"
    /\ currentScreen = "RESULT"
    /\ analysisResult # NoResult
    /\ currentScreen' = "TRAINING"
    /\ UNCHANGED <<audioVars, config, phrases, currentPhraseIndex, analysisResult,
                   sessionAttempts, currentUserBlob, isProcessing, history,
                   recordings, uuidsIssued>>

\* lines 142-148, also lines 300-304: the next phrase, or the end of the session
AdvancePhrase ==
    IF currentPhraseIndex < Len(phrases) - 1
    THEN currentPhraseIndex' = currentPhraseIndex + 1 /\ currentScreen' = "TRAINING"
    ELSE currentPhraseIndex' = currentPhraseIndex /\ currentScreen' = "HISTORY"

\* lines 130-149
handleNextPhrase ==
    /\ pc = "app"
    /\ currentScreen = "RESULT"
    /\ analysisResult # NoResult
    /\ uuidsIssued < MaxHistory
    /\ history' = saveToHistory(history, analysisResult, uuidsIssued + 1)
    /\ uuidsIssued' = uuidsIssued + 1
    /\ currentUserBlob' = NoResult
    /\ analysisResult' = NoResult
    /\ sessionAttempts' = <<>>
    /\ AdvancePhrase
    /\ UNCHANGED <<audioVars, config, phrases, isProcessing, recordings>>

\* lines 151-184 with a configuration set: generateCustomPhrase returns a
\* phrase (generated) or null
handleCustomPhraseRequest ==
    /\ pc = "app"
    /\ currentScreen = "RESULT"
    /\ analysisResult # NoResult
    /\ config
    /\ uuidsIssued < MaxHistory
    /\ history' = saveToHistory(history, analysisResult, uuidsIssued + 1)
    /\ uuidsIssued' = uuidsIssued + 1
    /\ currentUserBlob' = NoResult
    /\ \E generated \in BOOLEAN :
          IF generated
          THEN /\ Len(phrases) <= MaxPhrases
               /\ phrases' = SubSeq(phrases, 1, currentPhraseIndex + 1)
                                 \o <<"custom">>
                                 \o SubSeq(phrases, currentPhraseIndex + 2, Len(phrases))
               /\ analysisResult' = NoResult
               /\ sessionAttempts' = <<>>
               /\ currentPhraseIndex' = currentPhraseIndex + 1
               /\ currentScreen' = "TRAINING"
          ELSE UNCHANGED <<phrases, analysisResult, sessionAttempts,
                           currentPhraseIndex, currentScreen>>
    /\ UNCHANGED <<audioVars, config, isProcessing, recordings>>

\* lines 294-305, onNext of the training screen: the phrase is skipped
SkipPhrase ==
    /\ pc = "app"
    /\ currentScreen = "TRAINING"
    /\ Len(phrases) > 0
    /\ ~isProcessing
    /\ currentUserBlob' = NoResult
    /\ analysisResult' = NoResult
    /\ sessionAttempts' = <<>>
    /\ IF currentPhraseIndex < Len(phrases) - 1
       THEN currentPhraseIndex' = currentPhraseIndex + 1 /\ UNCHANGED currentScreen
       ELSE currentPhraseIndex' = currentPhraseIndex /\ currentScreen' = "HISTORY"
    /\ UNCHANGED <<audioVars, config, phrases, isProcessing, history, recordings,
                   uuidsIssued>>

\* line 306, onExit of the training screen
ExitTraining ==
    /\ pc = "app"
    /\ currentScreen = "TRAINING"
    /\ Len(phrases) > 0
    /\ ~isProcessing
    /\ currentScreen' = "HISTORY"
    /\ UNCHANGED <<audioVars, config, phrases, currentPhraseIndex, analysisResult,
                   sessionAttempts, currentUserBlob, isProcessing, history,
                   recordings, uuidsIssued>>

\* lines 194-217: an item of the history is practised again
handleHistoryPractice ==
    /\ pc = "app"
    /\ currentScreen = "HISTORY"
    /\ history # <<>>
    /\ phrases' = <<"history">>
    /\ currentPhraseIndex' = 0
    /\ sessionAttempts' = <<>>
    /\ analysisResult' = NoResult
    /\ currentUserBlob' = NoResult
    /\ currentScreen' = "TRAINING"
    /\ UNCHANGED <<audioVars, config, isProcessing, history, recordings, uuidsIssued>>

\* the ids in a history file: the id of the stored item and the id of an
\* item saved on another device
ImportIds == {0, 101}

\* the arrays JSON.parse can give for a history file, by the ids of their items
ImportedFiles == UNION { [1..n -> ImportIds] : n \in 1..MaxImport }

\* lines 219-249: onImport of the history screen, for a file that parses to
\* the array importedHistory; the items come without audio and contours
handleImportHistory(importedHistory) ==
    /\ pc = "app"
    /\ currentScreen = "HISTORY"
    /\ LET existingIds == { history[k].id : k \in 1..Len(history) }
           stripped == [k \in 1..Len(importedHistory) |->
                           [id |-> importedHistory[k], result |-> NoResult]]
           isNew(i) == i.id \notin existingIds
           newItems == SelectSeq(stripped, isNew)
       IN  history' = history \o newItems
    /\ UNCHANGED <<audioVars, currentScreen, config, phrases, currentPhraseIndex,
                   analysisResult, sessionAttempts, currentUserBlob, isProcessing,
                   recordings, uuidsIssued>>

\* lines 251-258: onClear of the history screen
handleClearHistory ==
    /\ pc = "app"
    /\ currentScreen = "HISTORY"
    /\ history' = <<>>
    /\ UNCHANGED <<audioVars, currentScreen, config, phrases, currentPhraseIndex,
                   analysisResult, sessionAttempts, currentUserBlob, isProcessing,
                   recordings, uuidsIssued>>

NextApp ==
    \/ startSession
    \/ OpenHistory
    \/ HistoryBack
    \/ \E importedHistory \in ImportedFiles : handleImportHistory(importedHistory)
    \/ handleClearHistory
    \/ handleRecordingFinished
    \/ AnalysisResolved
    \/ handleRetry
    \/ handleNextPhrase
    \/ handleCustomPhraseRequest
    \/ SkipPhrase
    \/ ExitTraining
    \/ handleHistoryPractice

SpecApp == InitApp /\ [][NextApp]_vars

\* ================================================================== claims
RefLen == Len(refTrimmed)
UserLen == Len(userTrimmed)

\* performDTW has returned (format), possibly followed by lines 264-265 (await)
DtwReturned == pc \in {"format", "await"}

\* the sum over k of |a[k] - b[k]| for contours of one length
RECURSIVE TotalAbsDiff(_, _)
TotalAbsDiff(a, b) ==
    IF a = <<>> THEN Zero
    ELSE RAdd(RAbs(RSub(a[1], b[1])), TotalAbsDiff(Tail(a), Tail(b)))

\* ---------------------------------------------------------------------- C1
\* C1: whenever analyzeAudio returns (reference aligned, reference absent, or
\* the fallback after a failure), pitchCurveReference and pitchCurveUser have
\* the same length.
C1_EqualLength ==
    pc = "returned" => Len(pitchCurveReference) = Len(pitchCurveUser)

\* analyzeAudio returned after aligning a user contour whose own length
\* differs from the reference contour's
C1_Witness ==
    /\ pc = "returned"
    /\ RefLen >= 1
    /\ UserLen >= 1
    /\ UserLen # RefLen
    /\ Len(pitchCurveUser) = RefLen
    /\ Len(alignedUser) = RefLen

\* ---------------------------------------------------------------------- C2
PathMonotone(p) ==
    \A k \in 1..(Len(p) - 1) : p[k][1] <= p[k + 1][1] /\ p[k][2] <= p[k + 1][2]

\* C2: for non-empty contours the alignment path performDTW builds starts at
\* (0,0), ends at (N-1,M-1), and neither index ever decreases along it.
C2_PathBoundary ==
    (DtwReturned /\ RefLen > 0 /\ UserLen > 0) =>
        /\ Len(path) >= 1
        /\ path[1] = <<0, 0>>
        /\ path[Len(path)] = <<RefLen - 1, UserLen - 1>>
        /\ PathMonotone(path)

\* performDTW returned for contours of different lengths, both longer than one
C2_Witness ==
    /\ pc = "format"
    /\ RefLen >= 2 /\ UserLen >= 2 /\ RefLen # UserLen
    /\ Len(path) >= 3
    /\ path[1] = <<0, 0>>

\* ---------------------------------------------------------------------- C3
\* every path from (0,0) to (i,j) with steps (+1,0), (0,+1), (+1,+1), as the
\* sequence of its pairs
MaxCell == IF MaxDtwLen > Len(ExampleRef) THEN MaxDtwLen - 1 ELSE Len(ExampleRef) - 1

StepPaths ==
    LET P[i \in 0..MaxCell, j \in 0..MaxCell] ==
            IF i = 0 /\ j = 0 THEN { << <<0, 0>> >> }
            ELSE { Append(q, <<i, j>>) :
                     q \in (IF i > 0 THEN P[i - 1, j] ELSE {})
                           \cup (IF j > 0 THEN P[i, j - 1] ELSE {})
                           \cup (IF i > 0 /\ j > 0 THEN P[i - 1, j - 1] ELSE {}) }
    IN  P

\* the sum of |ref[r] - user[u]| over the pairs of a path
RECURSIVE PathCost(_, _, _)
PathCost(ref, user, q) ==
    IF q = <<>> THEN Zero
    ELSE RAdd(Dist(ref, user, q[1][1], q[1][2]), PathCost(ref, user, Tail(q)))

\* C3: every entry cost[i][j] is the minimum, over all step paths from (0,0)
\* to (i,j), of the summed absolute differences along the path.
C3_CostIsMinimum ==
    (pc = "backtrack" /\ Len(path) = 1) =>
        \A i \in 0..(RefLen - 1), j \in 0..(UserLen - 1) :
            LET costs == { PathCost(refTrimmed, userTrimmed, q) : q \in StepPaths[i, j] }
            IN  /\ cost[i][j] \in costs
                /\ \A x \in costs : RLe(cost[i][j], x)

\* a filled matrix in which the cheapest path to the last cell is cheaper
\* than the path along the diagonal and the path along the two borders
C3_Witness ==
    /\ pc = "backtrack" /\ Len(path) = 1
    /\ RefLen = 3 /\ UserLen = 3
    /\ RLt(cost[2][2], PathCost(refTrimmed, userTrimmed,
                                << <<0, 0>>, <<1, 1>>, <<2, 2>> >>))
    /\ RLt(cost[2][2], PathCost(refTrimmed, userTrimmed,
                                << <<0, 0>>, <<1, 0>>, <<2, 0>>, <<2, 1>>, <<2, 2>> >>))
    /\ RLt(cost[2][2], PathCost(refTrimmed, userTrimmed,
                                << <<0, 0>>, <<0, 1>>, <<0, 2>>, <<1, 2>>, <<2, 2>> >>))

\* ---------------------------------------------------------------------- C4
SetMax(S) == CHOOSE x \in S : \A y \in S : y <= x
SetMin(S) == CHOOSE x \in S : \A y \in S : x <= y

\* the user indices the path pairs with reference index i
PairedWith(i) == { path[k][2] : k \in { k \in 1..Len(path) : path[k][1] = i } }

\* C4: the contour performDTW returns has the reference's length N; for
\* non-empty inputs position i holds user[u] for the largest u the path pairs
\* with i, and 0 when the path pairs nothing with i.
C4_AlignedContour ==
    DtwReturned =>
        /\ Len(alignedUser) = RefLen
        /\ (RefLen > 0 /\ UserLen > 0) =>
              \A i \in 0..(RefLen - 1) :
                  alignedUser[i + 1] =
                      IF PairedWith(i) = {} THEN Zero
                      ELSE userTrimmed[SetMax(PairedWith(i)) + 1]

\* a reference index paired with two user indices whose values differ
C4_Witness ==
    /\ pc = "format"
    /\ RefLen > 0 /\ UserLen > 0
    /\ \E i \in 0..(RefLen - 1) :
          /\ Cardinality(PairedWith(i)) >= 2
          /\ userTrimmed[SetMin(PairedWith(i)) + 1] # userTrimmed[SetMax(PairedWith(i)) + 1]
          /\ alignedUser[i + 1] = userTrimmed[SetMax(PairedWith(i)) + 1]

\* ---------------------------------------------------------------------- C5
\* C5: with an empty reference or user contour performDTW returns N zeros
\* (nothing when the reference is empty) and builds no cost matrix and no path.
C5_Degenerate ==
    (DtwReturned /\ (RefLen = 0 \/ UserLen = 0)) =>
        /\ Len(alignedUser) = RefLen
        /\ \A k \in 1..RefLen : alignedUser[k] = Zero
        /\ cost = <<>>
        /\ path = <<>>

\* performDTW returned for a non-empty reference and an empty user contour
C5_Witness ==
    /\ pc = "format"
    /\ RefLen >= 2 /\ UserLen = 0
    /\ alignedUser = <<Zero, Zero>>

\* ---------------------------------------------------------------------- C6
InRange(v, lo, hi) == RLe(Num(lo), v) /\ RLe(v, Num(hi))

\* the k-th point of a curve is at time k - 1, its value is within [0,100],
\* and a value that is not 0 is within [10,90]
CurveWellFormed(curve) ==
    \A k \in 1..Len(curve) :
        /\ curve[k].time = k - 1
        /\ InRange(curve[k].value, 0, 100)
        /\ (curve[k].value = Zero \/ InRange(curve[k].value, NormBase, NormBase + NormSpan))

\* the frames of a buffer that the energy gate classifies as silent
SilentFrame(b, f) == IsSilent(b, sampleRate, f * step(sampleRate))

\* the 0-based frame a position of a trimmed contour comes from
FrameOf(normed, k) == TrimStart(normed, 0) + k - 1

\* C6: every value of the two returned contours lies in [0,100], the k-th
\* point is at position k counting from 0, and a value is 0 only for a silent
\* frame: voiced frames are mapped into [10,90].
C6_ValuesInRange ==
    pc = "returned" =>
        /\ CurveWellFormed(pitchCurveReference)
        /\ CurveWellFormed(pitchCurveUser)
        /\ Len(pitchCurveReference) = RefLen =>
              \A k \in 1..RefLen :
                  /\ pitchCurveReference[k].value = Zero =>
                        SilentFrame(refBuffer, FrameOf(refPitchNorm, k))
                  /\ pitchCurveUser[k].value = Zero =>
                        IF UserLen = 0
                        THEN \A f \in 0..(Len(userPitch) - 1) : SilentFrame(userBuffer, f)
                        ELSE SilentFrame(userBuffer,
                                FrameOf(userPitchNorm, SetMax(PairedWith(k - 1)) + 1))

\* ---------------------------------------------------------------------- C7
\* C7: for reference [10,50,90,50,10] and user [10,90,50,10] performDTW
\* returns 5 values whose total absolute difference against the reference is
\* at most 130, that of the zero-padded user contour [10,90,50,10,0].
C7_Example ==
    (DtwReturned /\ refTrimmed = ExampleRef /\ userTrimmed = ExampleUser) =>
        /\ Len(alignedUser) = 5
        /\ RLe(TotalAbsDiff(ExampleRef, alignedUser),
               TotalAbsDiff(ExampleRef, ExampleUser \o <<Zero>>))
        /\ TotalAbsDiff(ExampleRef, ExampleUser \o <<Zero>>) = Num(130)

\* performDTW returned for the two example contours
C7_Witness ==
    /\ pc = "format"
    /\ refTrimmed = ExampleRef
    /\ userTrimmed = ExampleUser
    /\ Len(path) >= 5
    /\ Len(alignedUser) = 5

\* ---------------------------------------------------------------------- C8
\* every sample of the buffer is below the energy threshold in absolute value
AllSamplesBelowThreshold(b) ==
    \A idx \in 0..(BufLen(b, sampleRate) - 1) :
        /\ ~NonFinite(b, sampleRate, idx)
        /\ RLt(Frac(Abs(channelData(b, sampleRate, idx)), Scale), EnergyThreshold)

\* C8: for a buffer whose samples are all below the energy threshold 0.01 in
\* absolute value, for any window size, every frame of the raw pitch contour
\* extractPitch returns is 0 and trimPitch of that contour is empty.
C8_SilentBuffer ==
    (pc = "extractUser" /\ AllSamplesBelowThreshold(refBuffer)) =>
        /\ \A k \in 1..Len(refPitch) : refPitch[k] = Zero
        /\ trimPitch(refPitch) = <<>>

\* ---------------------------------------------------------------------- C9
NonZeroAt(a) == { k \in 1..Len(a) : a[k] # Zero }

\* C9: for a contour with a non-zero value trimPitch returns the slice from
\* the first to the last non-zero element, interior zeros kept ([0,0,5,0,7,0,0]
\* gives [5,0,7]); for an all-zero or empty contour it returns the empty
\* sequence.
C9_TrimSlice ==
    op = "trimPitch" =>
        /\ out = IF NonZeroAt(arr) = {} THEN <<>>
                 ELSE SubSeq(arr, SetMin(NonZeroAt(arr)), SetMax(NonZeroAt(arr)))
        /\ arr = TrimExample => out = <<Num(5), Zero, Num(7)>>

\* trimPitch returned for the contour [0,0,5,0,7,0,0]
C9_Witness ==
    /\ op = "trimPitch"
    /\ arr = TrimExample
    /\ out = <<Num(5), Zero, Num(7)>>

\* --------------------------------------------------------------------- C10
\* C10: normalize keeps the length of the contour and its silence mask: the
\* normalized value at k is 0 exactly when the input value at k is 0.
C10_SilenceMask ==
    op = "normalize" =>
        /\ Len(out) = Len(arr)
        /\ \A k \in 1..Len(arr) : (out[k] = Zero) <=> (arr[k] = Zero)

\* normalize returned for a contour with a silent frame and two voiced frames
\* of different pitch
C10_Witness ==
    /\ op = "normalize"
    /\ Len(arr) = 3
    /\ \E k \in 1..3 : arr[k] = Zero /\ out[k] = Zero
    /\ \E k, l \in 1..3 :
          /\ IsFinite(arr[k]) /\ IsFinite(arr[l])
          /\ RLt(Zero, arr[k]) /\ RLt(arr[k], arr[l])
          /\ out[k] = Num(NormBase)
          /\ out[l] = Num(NormBase + NormSpan)

\* --------------------------------------------------------------------- C11
\* the contour has at least two distinct non-zero values
NonDegenerate(a) == Cardinality({ a[k] : k \in NonZeroAt(a) }) >= 2

\* C11: for a contour with at least two distinct non-zero values, normalizing
\* the normalized contour again gives the normalized contour itself.
C11_Idempotent ==
    (op = "normalizeAgain" /\ NonDegenerate(arr)) => out = normalize(arr)

\* normalize was applied twice to a contour with a silent frame and voiced
\* frames of different pitch less than 1 Hz apart
C11_Witness ==
    /\ op = "normalizeAgain"
    /\ \E k, l, z \in 1..Len(arr) :
          /\ arr[z] = Zero /\ out[z] = Zero
          /\ arr[k] = Num(5) /\ arr[l] = Frac(11, 2)
          /\ out[k] = Num(NormBase)
          /\ out[l] = Num(NormBase + NormSpan)

\* --------------------------------------------------------------------- C12
\* floor((sampleCount - windowSize) / hopSize) + 1
FrameCount(b, sr) == ((BufLen(b, sr) - winSize(sr)) \div step(sr)) + 1

\* C12: for a buffer of at least windowSize samples the raw pitch contour
\* extractPitch returns has floor((sampleCount - windowSize) / hopSize) + 1
\* entries, also when sampleCount - windowSize is a multiple of hopSize or 0.
C12_FrameCount ==
    (pc = "extractUser" /\ BufLen(refBuffer, sampleRate) >= winSize(sampleRate)) =>
        Len(refPitch) = FrameCount(refBuffer, sampleRate)

\* --------------------------------------------------------------------- C13
\* the number of samples the loop of lines 86-88 adds up
SamplesSummed(sr) == (winSize(sr) + SubSample - 1) \div SubSample

\* the mean of |sample| over the offsets 0, 4, 8, ... of the frame at i
MeanAbs(b, sr, i) ==
    IF EnergyIsNaN(b, sr, i) THEN NaN
    ELSE Frac(EnergySum(b, sr, i, 0), Scale * SamplesSummed(sr))

\* C13: a frame is classified silent (its raw pitch value is 0) exactly when
\* the mean of |sample| over its sub-sampled offsets, the sum divided by the
\* number of samples summed, is strictly below 0.01.
C13_EnergyGate ==
    pc \in {"extractRef", "extractUser"} =>
        \A k \in 1..Len(refPitch) :
            (refPitch[k] = Zero) <=>
                RLt(MeanAbs(refBuffer, sampleRate, (k - 1) * step(sampleRate)),
                    EnergyThreshold)

\* --------------------------------------------------------------------- C14
\* C14: performDTW returns for every pair of contours: for an empty input it
\* returns N zeros at once; while backtracking, i and j stay inside the matrix
\* (no entry outside it is read) and the iterations done plus i + j never
\* exceed N + M - 2, so the loop reaches (0,0) within N + M - 2 iterations.
C14_Terminates ==
    /\ pc = "backtrack" =>
          /\ bi \in 0..(RefLen - 1)
          /\ bj \in 0..(UserLen - 1)
          /\ (Len(path) - 1) + bi + bj <= RefLen + UserLen - 2
    /\ DtwReturned =>
          /\ Len(alignedUser) = RefLen
          /\ (RefLen > 0 /\ UserLen > 0) =>
                <<bi, bj>> = <<0, 0>> /\ Len(path) - 1 <= RefLen + UserLen - 2

\* the backtracking loop ended at (0,0) after exactly N + M - 2 iterations
C14_Witness ==
    /\ pc = "backtrack"
    /\ <<bi, bj>> = <<0, 0>>
    /\ RefLen + UserLen >= 4
    /\ Len(path) - 1 = RefLen + UserLen - 2

\* --------------------------------------------------------------------- C15
\* the result is the result of an item of the history
Saved(result, h) == \E k \in 1..Len(h) : h[k].result = result

\* C15: every attempt is saved.  The result of a completed analysis is the
\* only thing a later Next or custom-phrase request can append to the history,
\* so it must never leave analysisResult (replaced by the next attempt's result
\* or cleared) without being an item of the history.
C15_EveryAttemptSaved ==
    [][(analysisResult # NoResult /\ analysisResult' # analysisResult)
          => Saved(analysisResult, history')]_vars

\* --------------------------------------------------------------------- C16
\* the non-zero values of a contour, its least and its greatest
VoicedValues(a) == { a[k] : k \in NonZeroAt(a) }
LeastOf(S) == CHOOSE x \in S : \A y \in S : RLe(x, y)
GreatestOf(S) == CHOOSE x \in S : \A y \in S : RLe(y, x)

\* ((v - min) / range) * 80 + 10
Rescaled(v, min, range) ==
    RAdd(RMul(RDiv(RSub(v, min), range), Num(NormSpan)), Num(NormBase))

\* the contour the claim describes, for a given rule for the range
NormalizedWith(a, Range(_, _)) ==
    IF VoicedValues(a) = {} THEN a
    ELSE LET min == LeastOf(VoicedValues(a))
             max == GreatestOf(VoicedValues(a))
         IN  [k \in 1..Len(a) |->
                 IF a[k] = Zero THEN Zero ELSE Rescaled(a[k], min, Range(min, max))]

\* range = max(max - min, 1)
RangeAtLeastOne(min, max) ==
    IF RLt(RSub(max, min), Num(1)) THEN Num(1) ELSE RSub(max, min)

\* range = max - min, and 1 when max = min
RangeOrOne(min, max) == IF max = min THEN Num(1) ELSE RSub(max, min)

\* C16, as stated: normalize maps each non-zero value v to
\* ((v - min) / range) * 80 + 10 with min and max over the non-zero values and
\* range = max(max - min, 1), maps 0 to 0, and returns a contour without a
\* non-zero value unchanged.
C16_RangeAtLeastOne ==
    op = "normalize" => out = NormalizedWith(arr, RangeAtLeastOne)

\* C16, amended: as above with range = max - min whenever max and min differ,
\* also by less than 1, and range = 1 only when max equals min.
C16_RangeOrOne ==
    op = "normalize" => out = NormalizedWith(arr, RangeOrOne)

\* normalize returned for voiced values less than 1 apart: they are spread
\* over the whole of 10 .. 90
C16_Witness ==
    /\ op = "normalize"
    /\ arr = <<Frac(11, 2), Zero, Num(5)>>
    /\ out = <<Num(NormBase + NormSpan), Zero, Num(NormBase)>>

\* --------------------------------------------------------------------- C17
\* the offsets j of the two sub-sampled loops, and the lags of the search
SubOffsets(sr) == { j \in 0..(winSize(sr) - 1) : j % SubSample = 0 }
Lags(sr) == minP(sr)..maxP(sr)

\* a buffer extractPitch has to reject: no samples, or a sample that is not a
\* finite number
InvalidInput(b, sr) ==
    \/ BufLen(b, sr) = 0
    \/ \E idx \in 0..(BufLen(b, sr) - 1) : NonFinite(b, sr, idx)

\* the start of the frame behind the k-th value of a raw contour
FrameStart(k) == (k - 1) * step(sampleRate)

\* C17: every index extractPitch reads is inside the buffer: i + j of the
\* energy gate for every frame, and i + j + p of the lag search for every
\* frame that passes the gate, every offset j and every lag p.
C17_ReadsInRange ==
    pc \in {"extractRef", "extractUser"} =>
        \A k \in 1..Len(refPitch) :
            /\ \A j \in SubOffsets(sampleRate) :
                  ~PastEnd(refBuffer, sampleRate, FrameStart(k) + j)
            /\ refPitch[k] # Zero =>
                  \A j \in SubOffsets(sampleRate), p \in Lags(sampleRate) :
                      ~PastEnd(refBuffer, sampleRate, FrameStart(k) + j + p)

\* --------------------------------------------------------------------- C18
\* the lags whose summed difference is least, for the frame at i; a lag whose
\* sum has a term outside the buffer has no sum and takes no part
BestLags(b, sr, i) ==
    LET sum == [p \in Lags(sr) |-> amdf(b, sr, i, p)]
    IN  { p \in Lags(sr) :
            /\ ~IsNaN(sum[p])
            /\ \A q \in Lags(sr) : IsNaN(sum[q]) \/ RLe(sum[p], sum[q]) }

\* C18: the value of a voiced frame is sampleRate / p for the smallest lag p
\* of minP .. maxP that minimises the sum over j = 0, 4, 8, ... of
\* |x[i+j] - x[i+j+p]| (for a buffer of finite samples).
C18_SmallestBestLag ==
    (pc \in {"extractRef", "extractUser"} /\ ~InvalidInput(refBuffer, sampleRate)) =>
        \A k \in 1..Len(refPitch) :
            refPitch[k] # Zero =>
                LET best == BestLags(refBuffer, sampleRate, FrameStart(k))
                IN  /\ best # {}
                    /\ refPitch[k] = Frac(sampleRate, SetMin(best))

\* --------------------------------------------------------------------- C19
\* C19: every non-zero value of the raw pitch contour is a finite frequency
\* between 75 and 600 Hz (for a buffer of finite samples).
C19_VoiceRange ==
    (pc \in {"extractRef", "extractUser"} /\ ~InvalidInput(refBuffer, sampleRate)) =>
        \A k \in 1..Len(refPitch) :
            refPitch[k] # Zero =>
                /\ IsFinite(refPitch[k])
                /\ InRange(refPitch[k], MinFreq, MaxFreq)

\* --------------------------------------------------------------------- C20
\* C20: the raw pitch value of a frame is 0 exactly when the energy gate
\* classified the frame as silent; a voiced frame records a non-zero value.
C20_ZeroIffSilent ==
    pc \in {"extractRef", "extractUser"} =>
        \A k \in 1..Len(refPitch) :
            (refPitch[k] = Zero) <=> IsSilent(refBuffer, sampleRate, FrameStart(k))

\* extractPitch returned a contour with a silent frame, a voiced frame with a
\* finite pitch and a voiced frame whose lag search found no lag
C20_Witness ==
    /\ pc = "extractUser"
    /\ \E k, l, n \in 1..Len(refPitch) :
          /\ refPitch[k] = Zero
          /\ IsSilent(refBuffer, sampleRate, FrameStart(k))
          /\ refPitch[l] # Zero /\ IsFinite(refPitch[l])
          /\ refPitch[n] = Inf
          /\ ~IsSilent(refBuffer, sampleRate, FrameStart(n))

\* --------------------------------------------------------------------- C21
\* the move the claim prescribes at cell (i, j): along the border when i or j
\* is 0, else to the cheapest of the three predecessors, the diagonal before
\* the reference step before the user step when they tie
PrescribedMove(c, i, j) ==
    IF i = 0 THEN <<0, j - 1>>
    ELSE IF j = 0 THEN <<i - 1, 0>>
    ELSE LET diagonal == c[i - 1][j - 1]
             refStep == c[i - 1][j]
             userStep == c[i][j - 1]
         IN  IF RLe(diagonal, refStep) /\ RLe(diagonal, userStep) THEN <<i - 1, j - 1>>
             ELSE IF RLe(refStep, userStep) THEN <<i - 1, j>>
             ELSE <<i, j - 1>>

\* C21: every move of the backtracking loop is the prescribed one (while the
\* loop runs, path holds the cells visited so far, last cell first).
C21_TieBreak ==
    pc = "backtrack" =>
        \A k \in 1..(Len(path) - 1) :
            path[k + 1] = PrescribedMove(cost, path[k][1], path[k][2])

\* the loop took the reference step at a cell where it tied with the user
\* step and both were cheaper than the diagonal
C21_Witness ==
    /\ pc = "backtrack"
    /\ \E k \in 1..(Len(path) - 1) :
          LET i == path[k][1]
              j == path[k][2]
          IN  /\ i > 0 /\ j > 0
              /\ cost[i - 1][j] = cost[i][j - 1]
              /\ RLt(cost[i - 1][j], cost[i - 1][j - 1])
              /\ path[k + 1] = <<i - 1, j>>

\* --------------------------------------------------------------------- C22
\* C22: normalize followed by trimPitch, the order of analyzeAudio, and
\* trimPitch followed by normalize give the same contour.
C22_OrderIndifferent ==
    /\ op = "normalizeThenTrim" => out = normalize(trimPitch(arr))
    /\ op = "trimThenNormalize" => out = trimPitch(normalize(arr))

\* both orders were applied to a contour with silence at both ends and two
\* voiced frames of different pitch
C22_Witness ==
    /\ op \in {"normalizeThenTrim", "trimThenNormalize"}
    /\ arr = <<Zero, Num(7), Num(5)>>
    /\ out = <<Num(NormBase + NormSpan), Num(NormBase)>>

\* --------------------------------------------------------------------- C23
\* a contour extended to length n by repeating the value v
PaddedWith(a, n, v) == [k \in 1..n |-> IF k <= Len(a) THEN a[k] ELSE v]

\* both contours are non-empty, start and end with a non-zero value, and the
\* user contour is not longer than the reference
VoicedEnds(a) == a # <<>> /\ a[1] # Zero /\ a[Len(a)] # Zero
C23_Scope ==
    /\ DtwReturned
    /\ VoicedEnds(refTrimmed) /\ VoicedEnds(userTrimmed)
    /\ UserLen <= RefLen

\* C23, as stated: the total absolute difference between the reference and
\* the contour performDTW returns is at most that between the reference and
\* the user contour padded with zeros to length N.
C23_NotWorseThanZeroPadded ==
    C23_Scope =>
        RLe(TotalAbsDiff(refTrimmed, alignedUser),
            TotalAbsDiff(refTrimmed, PaddedWith(userTrimmed, RefLen, Zero)))

\* C23, amended: ... at most that between the reference and the user contour
\* padded to length N with its own last value.
C23_NotWorseThanLastPadded ==
    C23_Scope =>
        RLe(TotalAbsDiff(refTrimmed, alignedUser),
            TotalAbsDiff(refTrimmed,
                         PaddedWith(userTrimmed, RefLen, userTrimmed[UserLen])))

\* performDTW returned a contour that is further from the reference than the
\* zero-padded user contour, and not further than the user contour padded
\* with its last value
C23_Witness ==
    /\ pc = "format"
    /\ VoicedEnds(refTrimmed) /\ VoicedEnds(userTrimmed)
    /\ UserLen < RefLen
    /\ RLt(TotalAbsDiff(refTrimmed, PaddedWith(userTrimmed, RefLen, Zero)),
           TotalAbsDiff(refTrimmed, alignedUser))
    /\ RLe(TotalAbsDiff(refTrimmed, alignedUser),
           TotalAbsDiff(refTrimmed,
                        PaddedWith(userTrimmed, RefLen, userTrimmed[UserLen])))

\* --------------------------------------------------------------------- C24
\* a placeholder contour: 50 points at positions 0 .. 49 with values in [30,70]
IsPlaceholder(curve) ==
    /\ Len(curve) = FallbackLength
    /\ \A k \in 1..Len(curve) :
          /\ curve[k].time = k - 1
          /\ InRange(curve[k].value, FallbackMid - FallbackAmp, FallbackMid + FallbackAmp)

\* C24: when a step of the try block throws, analyzeAudio goes on to await
\* the coach feedback with both contours replaced by placeholders, and from
\* there it returns with the contours as they are.
C24_Fallback ==
    [][/\ (pc \in ThrowPoints /\ pc' = "await") =>
              /\ IsPlaceholder(pitchCurveReference')
              /\ IsPlaceholder(pitchCurveUser')
       /\ pc = "await" => (pc' = "returned" /\ UNCHANGED curveVars)]_vars

\* analyzeAudio returned the placeholder pair after the reference failed to
\* decode
C24_Witness ==
    /\ pc = "returned"
    /\ referenceAudioData
    /\ refPitch = <<>> /\ userPitch = <<>>
    /\ IsPlaceholder(pitchCurveReference)
    /\ IsPlaceholder(pitchCurveUser)
    /\ pitchCurveReference # pitchCurveUser

\* --------------------------------------------------------------------- C25
\* C25: extractPitch does not return a contour for a buffer of zero length
\* or with a non-finite sample (it fails with InvalidInput instead).
C25_FailsFast ==
    pc = "extractUser" => ~InvalidInput(refBuffer, sampleRate)

\* --------------------------------------------------------------------- C26
\* the locals of a call are what the call computes on its own from its two
\* buffers, as far as it has come: every contour is the result of its stage
\* applied to the contour before it, and what is not computed yet is untouched
AsWhenAlone(r) ==
    LET before(stages) == r.pc \in stages
    IN  /\ r.refPitch = IF before({"extract"}) THEN <<>>
                        ELSE extractPitch(r.refBuffer, sampleRate)
        /\ r.userPitch = IF before({"extract"}) THEN <<>>
                         ELSE extractPitch(r.userBuffer, sampleRate)
        /\ r.refPitchNorm = IF before({"extract", "normalize"}) THEN <<>>
                            ELSE normalize(r.refPitch)
        /\ r.userPitchNorm = IF before({"extract", "normalize"}) THEN <<>>
                             ELSE normalize(r.userPitch)
        /\ r.refTrimmed = IF before({"extract", "normalize", "trim"}) THEN <<>>
                          ELSE trimPitch(r.refPitchNorm)
        /\ r.userTrimmed = IF before({"extract", "normalize", "trim"}) THEN <<>>
                           ELSE trimPitch(r.userPitchNorm)
        /\ r.alignedUser = IF r.pc = "done"
                           THEN performDTW(r.refTrimmed, r.userTrimmed) ELSE <<>>

\* C26: whichever call takes a step, each of the two interleaved calls keeps
\* its own buffers and holds exactly the contours it computes when run alone:
\* no step writes the locals of the other call or changes a contour that was
\* its input.
C26_Independent ==
    [][\A a \in Analyses :
          /\ analyses'[a].refBuffer = analyses[a].refBuffer
          /\ analyses'[a].userBuffer = analyses[a].userBuffer
          /\ AsWhenAlone(analyses'[a])]_vars

\* one call has finished with a non-empty aligned contour while the other,
\* given different recordings, is between normalize and trim
C26_Witness ==
    /\ pc = "par"
    /\ analyses["first"].pc = "done"
    /\ analyses["second"].pc = "trim"
    /\ analyses["first"].alignedUser # <<>>
    /\ analyses["second"].refPitchNorm # <<>>
    /\ analyses["second"].refPitchNorm # analyses["first"].refPitchNorm
    /\ analyses["second"].userPitchNorm # analyses["first"].userPitchNorm

\* --------------------------------------------------------------------- C27
\* C27: after any sequence of saves, imports and clears no two items of the
\* history have the same id.
C27_UniqueIds ==
    \A k, l \in 1..Len(history) : history[k].id = history[l].id => k = l

\* --------------------------------------------------------------------- C28
\* the steps a path may take from one pair to the next
Steps == { <<1, 0>>, <<0, 1>>, <<1, 1>> }

StepAt(p, k) == <<p[k + 1][1] - p[k][1], p[k + 1][2] - p[k][2]>>

\* C28: for non-empty inputs every two consecutive pairs of the path differ
\* by one of the steps (+1,0), (0,+1), (+1,+1); every reference index is paired;
\* every position of the aligned contour holds a value of the user contour and
\* the last position holds user[M-1].
C28_PathSteps ==
    (DtwReturned /\ RefLen > 0 /\ UserLen > 0) =>
        /\ \A k \in 1..(Len(path) - 1) : StepAt(path, k) \in Steps
        /\ \A i \in 0..(RefLen - 1) : PairedWith(i) # {}
        /\ \A i \in 1..RefLen : \E u \in 1..UserLen : alignedUser[i] = userTrimmed[u]
        /\ alignedUser[RefLen] = userTrimmed[UserLen]

\* performDTW returned for a user contour without a 0, along a path that
\* takes each of the three steps
C28_Witness ==
    /\ pc = "format"
    /\ RefLen = 3 /\ UserLen = 3
    /\ \A u \in 1..UserLen : userTrimmed[u] # Zero
    /\ \A st \in Steps : \E k \in 1..(Len(path) - 1) : StepAt(path, k) = st
    /\ \A i \in 1..RefLen : alignedUser[i] # Zero

\* --------------------------------------------------------------------- C29
\* C29: for non-empty inputs the path found by backtracking is an optimal
\* one: the differences |ref[r] - user[u]| over its pairs add up to
\* C[N-1][M-1], and the total absolute difference between the reference and
\* the aligned contour is at most C[N-1][M-1].
C29_PathOptimal ==
    (DtwReturned /\ RefLen > 0 /\ UserLen > 0) =>
        /\ PathCost(refTrimmed, userTrimmed, path) = cost[RefLen - 1][UserLen - 1]
        /\ RLe(TotalAbsDiff(refTrimmed, alignedUser), cost[RefLen - 1][UserLen - 1])

\* performDTW returned along a path that is cheaper than the diagonal, with
\* an aligned contour that is closer to the reference than the path's cost
C29_Witness ==
    /\ pc = "format"
    /\ RefLen = 3 /\ UserLen = 3
    /\ RLt(cost[2][2], PathCost(refTrimmed, userTrimmed,
                                << <<0, 0>>, <<1, 1>>, <<2, 2>> >>))
    /\ RLt(TotalAbsDiff(refTrimmed, alignedUser), cost[2][2])
    /\ PathCost(refTrimmed, userTrimmed, path) = cost[2][2]

\* --------------------------------------------------------------------- C30
\* (0,0), (1,1), ..., (n-1,n-1)
Diagonal(n) == [k \in 1..n |-> <<k - 1, k - 1>>]

\* C30: aligning a non-empty contour with itself gives the contour itself,
\* along the diagonal path.
C30_SelfAlignment ==
    (DtwReturned /\ RefLen > 0 /\ userTrimmed = refTrimmed) =>
        /\ alignedUser = refTrimmed
        /\ path = Diagonal(RefLen)

\* performDTW returned for a contour aligned with itself that repeats a value,
\* so that paths off the diagonal cost nothing either
C30_Witness ==
    /\ pc = "format"
    /\ RefLen = 3 /\ userTrimmed = refTrimmed
    /\ refTrimmed[1] = refTrimmed[2] /\ refTrimmed[2] # refTrimmed[3]
    /\ PathCost(refTrimmed, userTrimmed, << <<0, 0>>, <<1, 0>>, <<1, 1>>, <<2, 2>> >>) = Zero
    /\ alignedUser = refTrimmed
    /\ path = Diagonal(3)

====
